---- MODULE Spec2Model ----
(***************************************************************************)
(* Iso8601 (core_types/src/time.rs): a timestamp held as raw text, its     *)
(* fallible conversion to a DateTime<FixedOffset> (strict RFC 3339 first,  *)
(* then the permissive ISO8601_RE pattern, then RFC 3339 again), and the   *)
(* PartialEq / PartialOrd / Ord relations and the Debug rendering built on *)
(* that conversion.                                                        *)
(*                                                                         *)
(* A text is a sequence of characters; a character is a one-character      *)
(* string, or "U+2212" (MINUS SIGN) and "U+0663" (ARABIC-INDIC DIGIT       *)
(* THREE) for the two non-ASCII characters of the alphabet.                *)
(***************************************************************************)
EXTENDS Integers, Sequences, FiniteSets, TLC

VARIABLES lhs, res, v, out

vars == <<lhs, res, v, out>>

\* ------------------------------------------------------------ characters

AsciiDigit == {"0", "1", "2", "3", "4", "5", "6", "7", "8", "9"}

\* regex \d is Unicode-aware (general category Nd); chrono scans b'0'..=b'9'.
UnicodeDigit == AsciiDigit \cup {"U+0663"}

\* regex \s (White_Space); the alphabet holds the ASCII space only.
WhiteSpace == {" "}

DigitVal(c) ==
    CASE c = "0" -> 0 [] c = "1" -> 1 [] c = "2" -> 2 [] c = "3" -> 3
      [] c = "4" -> 4 [] c = "5" -> 5 [] c = "6" -> 6 [] c = "7" -> 7
      [] c = "8" -> 8 [] c = "9" -> 9

DigitChar(n) ==
    CASE n = 0 -> "0" [] n = 1 -> "1" [] n = 2 -> "2" [] n = 3 -> "3"
      [] n = 4 -> "4" [] n = 5 -> "5" [] n = 6 -> "6" [] n = 7 -> "7"
      [] n = 8 -> "8" [] n = 9 -> "9"

\* The Unicode scalar value of each character of the alphabet.
CodePoint(c) ==
    CASE c = " " -> 32 [] c = "+" -> 43 [] c = "," -> 44 [] c = "-" -> 45
      [] c = "." -> 46 [] c \in AsciiDigit -> 48 + DigitVal(c)
      [] c = ":" -> 58 [] c = "T" -> 84 [] c = "Z" -> 90 [] c = "a" -> 97
      [] c = "b" -> 98 [] c = "o" -> 111 [] c = "r" -> 114 [] c = "t" -> 116
      [] c = "z" -> 122 [] c = "U+0663" -> 1635 [] c = "U+2212" -> 8722

Alphabet ==
    AsciiDigit \cup {" ", "+", ",", "-", ".", ":", "T", "Z", "a", "b", "o",
                     "r", "t", "z", "U+0663", "U+2212"}

\* s[i], or "" past either end of the text
At(s, i) == IF i >= 1 /\ i <= Len(s) THEN s[i] ELSE ""

Slice(s, i, j) == SubSeq(s, i, j)

\* The number denoted by the ASCII digits s[i..j]
RECURSIVE Num(_, _, _)
Num(s, i, j) ==
    IF j < i THEN 0 ELSE Num(s, i, j - 1) * 10 + DigitVal(s[j])

AllAsciiDigits(s, i, j) ==
    /\ j <= Len(s)
    /\ \A k \in i..j : s[k] \in AsciiDigit

\* {:0>w}: s padded on the left with '0' to at least w characters
RECURSIVE PadZero(_, _)
PadZero(s, w) == IF Len(s) >= w THEN s ELSE PadZero(<<"0">> \o s, w)

\* n as exactly w decimal digits ({:0w})
RECURSIVE Digits(_, _)
Digits(n, w) ==
    IF w = 0 THEN <<>> ELSE Append(Digits(n \div 10, w - 1), DigitChar(n % 10))

\* ------------------------------------------- chrono: calendar and DateTime
\* chrono is an external crate; it is modelled after the behaviour time.rs
\* relies on at each call site (parse_from_rfc3339, to_rfc3339, eq, cmp).
\* A value that is used more than once is handed on as a parameter.

IsLeapYear(y) == (y % 4 = 0 /\ y % 100 # 0) \/ y % 400 = 0

DaysInMonth(y, m) ==
    CASE m \in {1, 3, 5, 7, 8, 10, 12} -> 31
      [] m \in {4, 6, 9, 11} -> 30
      [] m = 2 -> IF IsLeapYear(y) THEN 29 ELSE 28
      [] OTHER -> 0

\* NaiveDate: a day of the proleptic Gregorian calendar
Date(y, m, d) == [year |-> y, month |-> m, day |-> d]

DateSucc(date) ==
    IF date.day < DaysInMonth(date.year, date.month)
    THEN Date(date.year, date.month, date.day + 1)
    ELSE IF date.month < 12 THEN Date(date.year, date.month + 1, 1)
    ELSE Date(date.year + 1, 1, 1)

DatePred(date) ==
    IF date.day > 1 THEN Date(date.year, date.month, date.day - 1)
    ELSE IF date.month > 1
         THEN Date(date.year, date.month - 1,
                   DaysInMonth(date.year, date.month - 1))
    ELSE Date(date.year - 1, 12, 31)

\* date + days, for the one day a fixed offset can move a date by
DateAdd(date, days) ==
    CASE days = 0 -> date
      [] days = 1 -> DateSucc(date)
      [] days = -1 -> DatePred(date)

SecsPerDay == 86400

NanosPerSec == 1000000000

RECURSIVE Pow10(_)
Pow10(n) == IF n = 0 THEN 1 ELSE 10 * Pow10(n - 1)

\* Result<DateTime<FixedOffset>, _>: Ok carries the DateTime as chrono holds
\* it, the UTC NaiveDateTime (date, secs of the day, frac: nanoseconds, with
\* frac >= 10^9 inside a leap second) and the offset in seconds east.
Ok(dt) == [ok |-> TRUE, dt |-> dt]

Err(msg) == [ok |-> FALSE, msg |-> msg]

ParseError == Err(<<"ParseError">>)

\* format::scan::nanosecond on the n digits from s[i]: up to nine digits
\* count, further digits are skipped
Nanosecond(s, i, n) ==
    IF n > 9 THEN Num(s, i, i + 8) ELSE Num(s, i, i + n - 1) * Pow10(9 - n)

\* NaiveDateTime - FixedOffset, the fraction (and with it a leap second) put
\* back unchanged (add_with_leapsecond); total: seconds of the local day
\* less the offset
FromLocal(date, total, frac, offset) ==
    Ok([date |-> DateAdd(date, total \div SecsPerDay),
        secs |-> total % SecsPerDay,
        frac |-> frac,
        offset |-> offset])

\* Parsed::to_datetime: the fields must name a day of the calendar and a time
\* of the day; second 60 is a leap second
ToDateTime(year, month, day, hour, minute, second, nano, offset) ==
    IF \/ month < 1 \/ month > 12
       \/ day < 1 \/ day > DaysInMonth(year, month)
       \/ hour > 23 \/ minute > 59 \/ second > 60
    THEN ParseError
    ELSE FromLocal(Date(year, month, day),
                   hour * 3600 + minute * 60
                        + (IF second = 60 THEN 59 ELSE second) - offset,
                   nano + (IF second = 60 THEN NanosPerSec ELSE 0),
                   offset)

\* a variant of ParseFields that takes an offset of -24:00
ParseFields_Inclusive(s, z, offset) ==
    IF offset < -SecsPerDay \/ offset >= SecsPerDay THEN ParseError
    ELSE ToDateTime(Num(s, 1, 4), Num(s, 6, 7), Num(s, 9, 10), Num(s, 12, 13),
                    Num(s, 15, 16), Num(s, 18, 19),
                    IF z > 20 THEN Nanosecond(s, 21, z - 21) ELSE 0,
                    offset)

\* the date and time fields of a text of the RFC 3339 layout, the fraction
\* being s[21..z-1] and the offset known
ParseFields(s, z, offset) ==
    IF offset <= -SecsPerDay \/ offset >= SecsPerDay THEN ParseError
    ELSE ToDateTime(Num(s, 1, 4), Num(s, 6, 7), Num(s, 9, 10), Num(s, 12, 13),
                    Num(s, 15, 16), Num(s, 18, 19),
                    IF z > 20 THEN Nanosecond(s, 21, z - 21) ELSE 0,
                    offset)

\* scan::timezone_offset_zulu with a mandatory colon, at the end of the text:
\* "Z" | "z" | ("+" | "-") hh ":" mm, minutes up to 59
ParseZone(s, z) ==
    IF At(s, z) \in {"Z", "z"} /\ Len(s) = z THEN ParseFields(s, z, 0)
    ELSE IF /\ At(s, z) \in {"+", "-"}
            /\ Len(s) = z + 5
            /\ AllAsciiDigits(s, z + 1, z + 2)
            /\ s[z + 3] = ":"
            /\ AllAsciiDigits(s, z + 4, z + 5)
            /\ Num(s, z + 4, z + 5) <= 59
         THEN ParseFields(s, z,
                          (IF s[z] = "-" THEN -1 ELSE 1)
                            * (Num(s, z + 1, z + 2) * 3600
                                + Num(s, z + 4, z + 5) * 60))
    ELSE ParseError

\* the end of the run of characters of class cls that starts at s[i]
RECURSIVE RunEnd(_, _, _)
RunEnd(s, i, cls) == IF At(s, i) \in cls THEN RunEnd(s, i + 1, cls) ELSE i

\* ["." 1*DIGIT] from s[20]; z: where the zone starts
ParseFraction(s, z) == IF z = 21 THEN ParseError ELSE ParseZone(s, z)

\* DateTime::parse_from_rfc3339(s): date-fullyear "-" month "-" mday ("T"|"t")
\* hour ":" minute ":" second ["." 1*DIGIT] zone, nothing before or after
ParseRfc3339(s) ==
    IF /\ Len(s) >= 20
       /\ AllAsciiDigits(s, 1, 4) /\ s[5] = "-"
       /\ AllAsciiDigits(s, 6, 7) /\ s[8] = "-"
       /\ AllAsciiDigits(s, 9, 10) /\ s[11] \in {"T", "t"}
       /\ AllAsciiDigits(s, 12, 13) /\ s[14] = ":"
       /\ AllAsciiDigits(s, 15, 16) /\ s[17] = ":"
       /\ AllAsciiDigits(s, 18, 19)
    THEN (IF s[20] = "." THEN ParseFraction(s, RunEnd(s, 21, AsciiDigit))
          ELSE ParseZone(s, 20))
    ELSE ParseError

\* DateTime::to_rfc3339: the local date and time as {:04}-{:02}-{:02}T
\* {:02}:{:02}:{:02}, the fraction as 3, 6 or 9 digits (none when zero), the
\* offset as +hh:mm or -hh:mm (never Z).
\* a variant of FractionText that always writes nine digits
FractionText_Nine(nano) ==
    IF nano = 0 THEN <<>> ELSE <<".">> \o Digits(nano, 9)

FractionText(nano) ==
    IF nano = 0 THEN <<>>
    ELSE IF nano % 1000000 = 0 THEN <<".">> \o Digits(nano \div 1000000, 3)
    ELSE IF nano % 1000 = 0 THEN <<".">> \o Digits(nano \div 1000, 6)
    ELSE <<".">> \o Digits(nano, 9)

OffsetText(sign, a) ==
    <<sign>> \o Digits(a \div 3600, 2) \o <<":">> \o Digits((a % 3600) \div 60, 2)

\* the local date, the seconds of the local day, leap: 1 inside a leap second
LocalText(date, secs, leap, nano) ==
    Digits(date.year, 4) \o <<"-">> \o Digits(date.month, 2) \o <<"-">>
        \o Digits(date.day, 2) \o <<"T">> \o Digits(secs \div 3600, 2)
        \o <<":">> \o Digits((secs % 3600) \div 60, 2) \o <<":">>
        \o Digits((secs % 60) + leap, 2) \o FractionText(nano)

ToRfc3339(dt) ==
    LocalText(DateAdd(dt.date, (dt.secs + dt.offset) \div SecsPerDay),
              (dt.secs + dt.offset) % SecsPerDay,
              IF dt.frac >= NanosPerSec THEN 1 ELSE 0,
              dt.frac % NanosPerSec)
        \o (IF dt.offset < 0 THEN OffsetText("-", -dt.offset)
            ELSE OffsetText("+", dt.offset))

\* Ordering of two integers
IntCmp(a, b) == IF a < b THEN "Less" ELSE IF a > b THEN "Greater" ELSE "Equal"

\* the first ordering that is not Equal
Then(o, next) == IF o # "Equal" THEN o ELSE next

\* a variant of DateTimeEq that compares the offset with the rest
DateTimeEq_WithOffset(x, y) == x = y

\* DateTime's PartialEq and Ord compare the UTC NaiveDateTime, field by field
\* (the date, then secs, then frac); the offset takes no part.
DateTimeEq(x, y) ==
    x.date = y.date /\ x.secs = y.secs /\ x.frac = y.frac

DateTimeCmp(x, y) ==
    Then(IntCmp(x.date.year, y.date.year),
    Then(IntCmp(x.date.month, y.date.month),
    Then(IntCmp(x.date.day, y.date.day),
    Then(IntCmp(x.secs, y.secs), IntCmp(x.frac, y.frac)))))

\* ------------------------------------------------------------ ISO8601_RE
\* The pattern is anchored at both ends, so a match is decided by the
\* engine's preference order alone: an optional group or a greedy repetition
\* takes as much as it can and gives back only when the rest of the pattern
\* cannot match.  Re matches the pattern from one point to its end and
\* returns the captures of the preferred match, or NoMatch.
\* A capture group that took no part is <<>> (every group that takes part
\* holds at least one character).

NoMatch == [matched |-> FALSE]

NoCaptures ==
    [matched |-> TRUE, Y |-> <<>>, M |-> <<>>, D |-> <<>>, h |-> <<>>,
     m |-> <<>>, s |-> <<>>, ss |-> <<>>, Z |-> <<>>, Zsgn |-> <<>>,
     Zhrs |-> <<>>, Zmin |-> <<>>]

\* the preferred alternative a, else b
First(a, b) == IF a.matched THEN a ELSE b

\* [+-−]: inside a class, '+', '-', MINUS SIGN is the range U+002B..U+2212
InSgnClass(c) ==
    /\ c \in Alphabet
    /\ CodePoint(c) >= CodePoint("+")
    /\ CodePoint(c) <= CodePoint("U+2212")

TwoDigits(s, i) == At(s, i) \in UnicodeDigit /\ At(s, i + 1) \in UnicodeDigit

\* (?P<h> [01][0-9] | 2[0-3] )
HourField(s, p) ==
    \/ At(s, p) \in {"0", "1"} /\ At(s, p + 1) \in AsciiDigit
    \/ At(s, p) = "2" /\ At(s, p + 1) \in {"0", "1", "2", "3"}

\* (?P<m> [0-5][0-9] )
MinuteField(s, q) ==
    At(s, q) \in {"0", "1", "2", "3", "4", "5"} /\ At(s, q + 1) \in AsciiDigit

\* (?P<s> [0-5][0-9] | 60 )
SecondField(s, q) ==
    \/ MinuteField(s, q)
    \/ At(s, q) = "6" /\ At(s, q + 1) = "0"

\* (?P<D> 0[1-9] | [12][0-9] | 3[01] )
DayField(s, q) ==
    \/ At(s, q) = "0" /\ At(s, q + 1) \in AsciiDigit \ {"0"}
    \/ At(s, q) \in {"1", "2"} /\ At(s, q + 1) \in AsciiDigit
    \/ At(s, q) = "3" /\ At(s, q + 1) \in {"0", "1"}

\* (?P<M> 0[1-9] | 1[012] )
MonthField(s, q) ==
    \/ At(s, q) = "0" /\ At(s, q + 1) \in AsciiDigit \ {"0"}
    \/ At(s, q) = "1" /\ At(s, q + 1) \in {"0", "1", "2"}

\* Re(g, s, i, k, cap): the pattern from point g on, against s from s[i] on,
\* with the captures cap made so far.  k counts the characters a greedy
\* repetition still holds (\s+ before the hour, \d+ of the subseconds, \s*
\* before the zone): it is tried with k characters, then with fewer.
RECURSIVE Re(_, _, _, _, _)
Re(g, s, i, k, cap) ==
    CASE g = "month" ->
            \* (?: -? (?P<M> ...)? (day)? )?
            LET rest(q) ==
                    First(IF MonthField(s, q)
                          THEN Re("day", s, q + 2, 0,
                                  [cap EXCEPT !.M = Slice(s, q, q + 1)])
                          ELSE NoMatch,
                          Re("day", s, q, 0, cap))
            IN  First(IF At(s, i) = "-" THEN First(rest(i + 1), rest(i))
                      ELSE rest(i),
                      Re("time", s, i, 0, cap))
      [] g = "day" ->
            \* (?: -? (?P<D> ...)? )?
            LET rest(q) ==
                    First(IF DayField(s, q)
                          THEN Re("time", s, q + 2, 0,
                                  [cap EXCEPT !.D = Slice(s, q, q + 1)])
                          ELSE NoMatch,
                          Re("time", s, q, 0, cap))
            IN  First(IF At(s, i) = "-" THEN First(rest(i + 1), rest(i))
                      ELSE rest(i),
                      Re("time", s, i, 0, cap))
      [] g = "time" ->
            \* (?: (?: [Tt] | \s+ ) hour (minutes)? )?
            First(IF At(s, i) \in {"T", "t"} THEN Re("hour", s, i + 1, 0, cap)
                  ELSE Re("hour after", s, i, RunEnd(s, i, WhiteSpace) - i, cap),
                  Re("zone after", s, i, RunEnd(s, i, WhiteSpace) - i, cap))
      [] g = "hour after" ->
            \* \s+ with k characters, at least one
            IF k = 0 THEN NoMatch
            ELSE First(Re("hour", s, i + k, 0, cap),
                       Re("hour after", s, i, k - 1, cap))
      [] g = "hour" ->
            IF HourField(s, i)
            THEN Re("minute", s, i + 2, 0, [cap EXCEPT !.h = Slice(s, i, i + 1)])
            ELSE NoMatch
      [] g = "minute" ->
            \* (?: :? (?P<m> ...) (seconds)? )?
            LET minAt(q) ==
                    IF MinuteField(s, q)
                    THEN Re("second", s, q + 2, 0,
                            [cap EXCEPT !.m = Slice(s, q, q + 1)])
                    ELSE NoMatch
            IN  First(IF At(s, i) = ":" THEN First(minAt(i + 1), minAt(i))
                      ELSE minAt(i),
                      Re("zone after", s, i, RunEnd(s, i, WhiteSpace) - i, cap))
      [] g = "second" ->
            \* (?: :? (?P<s> ...) (subseconds)? )?
            LET secAt(q) ==
                    IF SecondField(s, q)
                    THEN Re("subseconds", s, q + 2, 0,
                            [cap EXCEPT !.s = Slice(s, q, q + 1)])
                    ELSE NoMatch
            IN  First(IF At(s, i) = ":" THEN First(secAt(i + 1), secAt(i))
                      ELSE secAt(i),
                      Re("zone after", s, i, RunEnd(s, i, WhiteSpace) - i, cap))
      [] g = "subseconds" ->
            \* (?: [.,] (?P<ss>\d+) )?
            First(IF At(s, i) \in {".", ","}
                  THEN Re("digits", s, i, RunEnd(s, i + 1, UnicodeDigit) - (i + 1),
                          cap)
                  ELSE NoMatch,
                  Re("zone after", s, i, RunEnd(s, i, WhiteSpace) - i, cap))
      [] g = "digits" ->
            \* \d+ with k digits, at least one; s[i] is the '.' or ','
            IF k = 0 THEN NoMatch
            ELSE First(Re("zone after", s, i + 1 + k,
                          RunEnd(s, i + 1 + k, WhiteSpace) - (i + 1 + k),
                          [cap EXCEPT !.ss = Slice(s, i + 1, i + k)]),
                       Re("digits", s, i, k - 1, cap))
      [] g = "zone after" ->
            \* \s* with k characters
            IF k = 0 THEN Re("zone", s, i, 0, cap)
            ELSE First(Re("zone", s, i + k, 0, cap),
                       Re("zone after", s, i, k - 1, cap))
      [] g = "zone" ->
            \* (?P<Z> [Zz] | (?P<Zsgn>[+-−]) (?P<Zhrs>\d{2})
            \*                 (?: :? (?P<Zmin>\d{2}) )? )?
            LET c1 == [cap EXCEPT !.Zsgn = <<s[i]>>,
                                  !.Zhrs = Slice(s, i + 1, i + 2)]
                minAt(p) ==
                    IF TwoDigits(s, p)
                    THEN Re("end", s, p + 2, 0,
                            [c1 EXCEPT !.Zmin = Slice(s, p, p + 1),
                                       !.Z = Slice(s, i, p + 1)])
                    ELSE NoMatch
            IN  First(IF At(s, i) \in {"Z", "z"}
                      THEN Re("end", s, i + 1, 0, [cap EXCEPT !.Z = <<s[i]>>])
                      ELSE NoMatch,
                First(IF InSgnClass(At(s, i)) /\ TwoDigits(s, i + 1)
                      THEN First(IF At(s, i + 3) = ":"
                                 THEN First(minAt(i + 4), minAt(i + 3))
                                 ELSE minAt(i + 3),
                                 Re("end", s, i + 3, 0,
                                    [c1 EXCEPT !.Z = Slice(s, i, i + 2)]))
                      ELSE NoMatch,
                      Re("end", s, i, 0, cap)))
      [] g = "end" ->
            \* \s* $
            IF RunEnd(s, i, WhiteSpace) = Len(s) + 1 THEN cap ELSE NoMatch

\* ISO8601_RE.captures(text):  ^ \s* (?P<Y>\d{4}) ...
Captures(s) ==
    LET i == RunEnd(s, 1, WhiteSpace)
    IN  IF TwoDigits(s, i) /\ TwoDigits(s, i + 2)
        THEN Re("month", s, i + 4, 0, [NoCaptures EXCEPT !.Y = Slice(s, i, i + 3)])
        ELSE NoMatch

\* ---------------------------------------------------------------- try_from

\* {:?} of a str: quoted; no character of the alphabet is one that
\* char::escape_debug rewrites
DebugStr(s) == <<"\"">> \o s \o <<"\"">>

\* a variant of OrDefault without the default
OrDefault_Absent(g, default) == g

\* cap.name(g).map_or(default, |m| m.as_str())
OrDefault(g, default) == IF g = <<>> THEN default ELSE g

\* match &cap["Zsgn"] { "+" => "+", _ => "-" }
SignText(zsgn) == IF zsgn = <<"+">> THEN <<"+">> ELSE <<"-">>

ZoneText(cap) ==
    IF cap.Z = <<>> \/ cap.Z \in {<<"Z">>, <<"z">>} THEN <<"Z">>
    ELSE SignText(cap.Zsgn) \o cap.Zhrs \o <<":">>
            \o OrDefault(cap.Zmin, <<"0", "0">>)

\* format!("{:0>4}-{:0>2}-{:0>2}T{:0>2}:{:0>2}:{:0>2}{}{}", ...)
Timestamp(cap) ==
    PadZero(cap.Y, 4) \o <<"-">> \o PadZero(OrDefault(cap.M, <<"1">>), 2)
        \o <<"-">> \o PadZero(OrDefault(cap.D, <<"1">>), 2)
        \o <<"T">> \o PadZero(OrDefault(cap.h, <<"0">>), 2)
        \o <<":">> \o PadZero(OrDefault(cap.m, <<"0">>), 2)
        \o <<":">> \o PadZero(OrDefault(cap.s, <<"0">>), 2)
        \o (IF cap.ss = <<>> THEN <<>> ELSE <<".">> \o cap.ss)
        \o ZoneText(cap)

NotFoundError(text) ==
    Err(<<"Failed to find ISO 3339 or RFC 8601 timestamp in ">> \o DebugStr(text))

ConvertError(timestamp, text) ==
    Err(<<"Attempting to convert RFC 3339 timestamp ">> \o DebugStr(timestamp)
            \o <<" from ISO 8601 ">> \o DebugStr(text) \o <<" to a DateTime">>)

\* a variant of MapErr that reports the failure of the second parse as the
\* failure to match
MapErr_NotFound(dt, timestamp, text) ==
    IF dt.ok THEN dt ELSE NotFoundError(text)

\* .map_err(|_| ...) on the second parse, of the assembled timestamp
MapErr(dt, timestamp, text) ==
    IF dt.ok THEN dt ELSE ConvertError(timestamp, text)

\* the closure for a match: assemble the timestamp, parse it again
Reparse(timestamp, text) == MapErr(ParseRfc3339(timestamp), timestamp, text)

\* ISO8601_RE.captures(text).map_or_else(|| Err(..), |cap| ..)
MapOrElse(cap, text) ==
    IF cap.matched THEN Reparse(Timestamp(cap), text) ELSE NotFoundError(text)

\* DateTime::parse_from_rfc3339(text).or_else(|_| ..)
OrElse(strict, text) ==
    IF strict.ok THEN strict ELSE MapOrElse(Captures(text), text)

\* DateTime::<FixedOffset>::try_from(&Iso8601)
try_from(text) == OrElse(ParseRfc3339(text), text)

\* ------------------------------------------------------------ the texts
\* The texts the model builds Iso8601 values from: strict RFC 3339 texts
\* (field values in and out of range), texts of the permissive forms (with
\* and without separators, fields left out from the right, each zone form)
\* and texts that are no timestamp at all.

\* at most MaxWs whitespace characters between two parts of a text
MaxWs == 2

\* at most MaxVec values in the vector that is compared and sorted
MaxVec == 3

RECURSIVE Spaces(_)
Spaces(n) == IF n = 0 THEN <<>> ELSE <<" ">> \o Spaces(n - 1)

Years == {<<"2", "0", "1", "8">>, <<"2", "0", "1", "6">>, <<"0", "0", "0", "0">>,
          <<"9", "9", "9", "9">>}

Months == {<<"0", "0">>, <<"0", "1">>, <<"0", "2">>, <<"1", "2">>, <<"1", "3">>}

Days == {<<"0", "0">>, <<"0", "1">>, <<"2", "9">>, <<"3", "0">>, <<"3", "1">>,
         <<"3", "2">>}

Hours == {<<"0", "3">>, <<"2", "3">>, <<"2", "4">>}

Minutes == {<<"2", "3">>, <<"6", "0">>}

Seconds == {<<"3", "8">>, <<"6", "0">>, <<"6", "1">>}

Fractions ==
    {<<>>, <<".", "5">>, <<".", "0", "0", "0">>, <<".", "5", "0", "0">>,
     <<".", "2", "3", "4", "5", "6", "7">>,
     <<".", "1", "2", "3", "4", "5", "6", "7", "8", "9">>,
     <<".", "1", "2", "3", "4", "5", "6", "7", "8", "9", "1">>}

StrictZones ==
    {<<"Z">>, <<"z">>, <<"+", "0", "0", ":", "0", "0">>,
     <<"-", "0", "0", ":", "0", "0">>, <<"-", "0", "8", ":", "0", "0">>,
     <<"+", "2", "3", ":", "5", "9">>, <<"-", "2", "4", ":", "0", "0">>,
     <<"+", "0", "5", ":", "6", "0">>}

\* YYYY-MM-DDThh:mm:ss[.f]zone, every field drawn on its own
StrictDates ==
    {y \o <<"-">> \o m \o <<"-">> \o d \o <<"T", "0", "3", ":", "2", "3", ":",
                                            "3", "8">> \o z :
        y \in Years, m \in Months, d \in Days,
        z \in {<<"Z">>, <<"-", "0", "8", ":", "0", "0">>}}

StrictTimes ==
    {<<"2", "0", "1", "6", "-", "0", "2", "-", "2", "9">> \o t \o h \o <<":">>
            \o m \o <<":">> \o s \o f \o z :
        t \in {<<"T">>, <<"t">>}, h \in Hours, m \in Minutes, s \in Seconds,
        f \in Fractions, z \in StrictZones}

\* YYYY[[-]MM[[-]DD]] with what may follow a date
DateForms ==
    {y \o a \o m \o b \o d :
        y \in {<<"2", "0", "1", "8">>}, a \in {<<>>, <<"-">>},
        m \in {<<>>, <<"0", "2">>, <<"1", "0">>, <<"1", "3">>},
        b \in {<<>>, <<"-">>},
        d \in {<<>>, <<"0", "1">>, <<"3", "0">>, <<"3", "1">>}}

PermissiveDates ==
    {Spaces(n) \o d \o r :
        n \in {0, MaxWs - 1}, d \in DateForms,
        r \in {<<>>, <<" ", "0", "3", "2", "3">>,
               <<"T", "0", "3", ":", "2", "3", ":", "3", "8", "Z">>}}

\* hh[[:]mm[[:]ss[(.|,)f]]]
TimeForms ==
    {h \o r :
        h \in Hours,
        r \in {<<>>} \cup
              {c \o m \o q :
                  c \in {<<>>, <<":">>}, m \in {<<"2", "3">>},
                  q \in {<<>>} \cup
                        {e \o s \o f :
                            e \in {<<>>, <<":">>},
                            s \in {<<"0", "0">>, <<"6", "0">>},
                            f \in {<<>>, <<",", "2", "3", "4", "5", "6", "7">>}}}}

ZoneForms ==
    {<<>>, <<"Z">>, <<"z">>, <<"+", "0", "0">>, <<"-", "0", "5", "0", "0">>,
     <<"+", "0", "4", ":", "0", "0">>, <<"U+2212", "0", "5">>,
     <<"+", "2", "5">>, <<"-", "5">>, <<".", "0", "5">>}

PermissiveTimes ==
    {d \o t \o h \o Spaces(n) \o z :
        d \in {<<"2", "0", "1", "8", "-", "0", "1", "-", "0", "1">>,
               <<"2", "0", "1", "8">>},
        t \in {<<"T">>, <<"t">>} \cup {Spaces(k) : k \in 1..MaxWs},
        h \in TimeForms, n \in {0, MaxWs}, z \in ZoneForms}


\* texts of test_iso_8601_basic and test_iso_8601_sorting, and a day that is
\* not of the calendar
\* "2018-10-11T03:23:38-08:00"
Pacific ==
    <<"2", "0", "1", "8", "-", "1", "0", "-", "1", "1", "T", "0", "3", ":",
       "2", "3", ":", "3", "8", "-", "0", "8", ":", "0", "0">>

\* "2018-10-11T11:23:38Z"
Zulu ==
    <<"2", "0", "1", "8", "-", "1", "0", "-", "1", "1", "T", "1", "1", ":",
       "2", "3", ":", "3", "8", "Z">>

\* " 20181011  0323  Z "
Loose ==
    <<" ", "2", "0", "1", "8", "1", "0", "1", "1", " ", " ", "0", "3", "2",
       "3", " ", " ", "Z", " ">>

\* "2018-10-11T03:23:00Z"
Minute ==
    <<"2", "0", "1", "8", "-", "1", "0", "-", "1", "1", "T", "0", "3", ":",
       "2", "3", ":", "0", "0", "Z">>

\* "2018-10-11T03:23:39-08:00"
PacificLater ==
    <<"2", "0", "1", "8", "-", "1", "0", "-", "1", "1", "T", "0", "3", ":",
       "2", "3", ":", "3", "9", "-", "0", "8", ":", "0", "0">>

\* "2015-02-18T23:59:60.234567-05:00"
LeapSecond ==
    <<"2", "0", "1", "5", "-", "0", "2", "-", "1", "8", "T", "2", "3", ":",
       "5", "9", ":", "6", "0", ".", "2", "3", "4", "5", "6", "7", "-", "0",
       "5", ":", "0", "0">>

\* "boo"
Boo ==
    <<"b", "o", "o">>

\* "bar"
Bar ==
    <<"b", "a", "r">>

\* "2018-02-30"
Feb30 ==
    <<"2", "0", "1", "8", "-", "0", "2", "-", "3", "0">>

\* the texts that are compared and sorted: the same instant written in two
\* ways, instants a second apart, a leap second, and texts that fail
SortTexts ==
    {
     Pacific,
     Zulu,
     Loose,
     Minute,
     PacificLater,
     \* "2018-10-11T03:23:39−09:00"
     <<"2", "0", "1", "8", "-", "1", "0", "-", "1", "1", "T", "0", "3", ":",
       "2", "3", ":", "3", "9", "U+2212", "0", "9", ":", "0", "0">>,
     \* "2018-10-11T03:23:39+11:00"
     <<"2", "0", "1", "8", "-", "1", "0", "-", "1", "1", "T", "0", "3", ":",
       "2", "3", ":", "3", "9", "+", "1", "1", ":", "0", "0">>,
     \* "20181011 032339 +04:00"
     <<"2", "0", "1", "8", "1", "0", "1", "1", " ", "0", "3", "2", "3", "3",
       "9", " ", "+", "0", "4", ":", "0", "0">>,
     LeapSecond,
     Boo,
     Bar,
     Feb30
    }

\* further texts of test_iso_8601_basic, and texts with a non-ASCII digit
OtherTexts ==
    {
     \* "baz"
     <<"b", "a", "z">>,
     \* ""
     <<>>,
     \* "2015-02-18T23:59:60.234567-5"
     <<"2", "0", "1", "5", "-", "0", "2", "-", "1", "8", "T", "2", "3", ":",
       "5", "9", ":", "6", "0", ".", "2", "3", "4", "5", "6", "7", "-", "5">>,
     \* "2015-02-18 3:59:60-05"
     <<"2", "0", "1", "5", "-", "0", "2", "-", "1", "8", " ", "3", ":", "5",
       "9", ":", "6", "0", "-", "0", "5">>,
     \* "2015-2-18 03:59:60-05"
     <<"2", "0", "1", "5", "-", "2", "-", "1", "8", " ", "0", "3", ":", "5",
       "9", ":", "6", "0", "-", "0", "5">>,
     \* "2015-2-18 03:59:60+25"
     <<"2", "0", "1", "5", "-", "2", "-", "1", "8", " ", "0", "3", ":", "5",
       "9", ":", "6", "0", "+", "2", "5">>,
     \* "2018-10-11T03:23:38 +00:00"
     <<"2", "0", "1", "8", "-", "1", "0", "-", "1", "1", "T", "0", "3", ":",
       "2", "3", ":", "3", "8", " ", "+", "0", "0", ":", "0", "0">>,
     \* "2018-10-11T03:23:38+00"
     <<"2", "0", "1", "8", "-", "1", "0", "-", "1", "1", "T", "0", "3", ":",
       "2", "3", ":", "3", "8", "+", "0", "0">>,
     \* "2018-- 0323"
     <<"2", "0", "1", "8", "-", "-", " ", "0", "3", "2", "3">>,
     \* "20150218 235960,234567 −05"
     <<"2", "0", "1", "5", "0", "2", "1", "8", " ", "2", "3", "5", "9", "6",
       "0", ",", "2", "3", "4", "5", "6", "7", " ", "U+2212", "0", "5">>,
     \* "٣٣٣٣"
     <<"U+0663", "U+0663", "U+0663", "U+0663">>,
     \* "2018-01-01 03:23:00.٣"
     <<"2", "0", "1", "8", "-", "0", "1", "-", "0", "1", " ", "0", "3", ":",
       "2", "3", ":", "0", "0", ".", "U+0663">>
    }

Texts ==
    StrictDates \cup StrictTimes \cup PermissiveDates \cup PermissiveTimes
        \cup SortTexts \cup OtherTexts

\* ------------------------------------------------- Iso8601: the relations

\* Option<T>
None == <<"None">>

Some(x) == <<"Some", x>>

\* try_from is a pure function of the text: for the texts that are compared
\* it is computed once and looked up after that
Converted == [text \in SortTexts |-> try_from(text)]

Convert(text) == Converted[text]

\* a variant of MatchEq under which two values that fail are equal
MatchEq_InvalidEqual(dt_lhs, dt_rhs) ==
    IF dt_lhs.ok
    THEN (IF dt_rhs.ok THEN DateTimeEq(dt_lhs.dt, dt_rhs.dt) ELSE FALSE)
    ELSE ~dt_rhs.ok

\* impl PartialEq for Iso8601, on the two conversions
MatchEq(dt_lhs, dt_rhs) ==
    IF dt_lhs.ok
    THEN (IF dt_rhs.ok THEN DateTimeEq(dt_lhs.dt, dt_rhs.dt) ELSE FALSE)
    ELSE FALSE

Eq(self, rhs) == MatchEq(Convert(self), Convert(rhs))

\* impl PartialOrd for Iso8601, on the two conversions
MatchPartialCmp(ts_lhs, ts_rhs) ==
    IF ts_lhs.ok
    THEN (IF ts_rhs.ok THEN Some(DateTimeCmp(ts_lhs.dt, ts_rhs.dt)) ELSE None)
    ELSE None

PartialCmp(self, rhs) == MatchPartialCmp(Convert(self), Convert(rhs))

\* a variant of MatchCmp under which a value that fails is Less than any
\* value, one that fails included
MatchCmp_InvalidLess(ts_lhs, ts_rhs) ==
    IF ts_lhs.ok
    THEN (IF ts_rhs.ok
          THEN DateTimeCmp(ts_lhs.dt, ts_rhs.dt)
          ELSE "Greater")
    ELSE "Less"

\* a variant of MatchCmp that does what the comment on impl Ord says: a
\* value that fails is Greater than one that converts
MatchCmp_InvalidGreater(ts_lhs, ts_rhs) ==
    IF ts_lhs.ok
    THEN (IF ts_rhs.ok
          THEN DateTimeCmp(ts_lhs.dt, ts_rhs.dt)
          ELSE "Less")
    ELSE (IF ts_rhs.ok THEN "Greater" ELSE "Equal")

\* impl Ord for Iso8601, on the two conversions
MatchCmp(ts_lhs, ts_rhs) ==
    IF ts_lhs.ok
    THEN (IF ts_rhs.ok THEN DateTimeCmp(ts_lhs.dt, ts_rhs.dt) ELSE "Greater")
    ELSE (IF ts_rhs.ok THEN "Less" ELSE "Equal")

Cmp(self, rhs) == MatchCmp(Convert(self), Convert(rhs))

\* impl fmt::Display for Iso8601
FmtDisplay(self) == <<"\"">> \o self \o <<"\"">>

\* impl fmt::Debug for Iso8601: the Ok arm, ts being dt.to_rfc3339()
FmtDebugOk(self, ts) ==
    IF self # ts
    THEN <<"Iso8601 { ">> \o DebugStr(ts) \o <<" <- ">> \o DebugStr(self)
            \o <<" }">>
    ELSE <<"Iso8601 { ">> \o DebugStr(self) \o <<" }">>

MatchDebug(self, r) ==
    IF r.ok THEN FmtDebugOk(self, ToRfc3339(r.dt))
    ELSE <<"Iso8601 { ">> \o DebugStr(self) \o <<" -> ">> \o r.msg \o <<" }">>

FmtDebug(self) == MatchDebug(self, try_from(self))

\* The comparator given to sort_by: |a, b| a.cmp(b), or |a, b| b.cmp(a)
Compare(reverse, a, b) == IF reverse THEN Cmp(b, a) ELSE Cmp(a, b)

\* slice::sort_by on a short slice (up to 20 elements) is an insertion sort
\* from the right: insert_head moves the head of w past the elements of its
\* sorted tail that compare Less than it.
RECURSIVE LessRun(_, _, _, _)
LessRun(reverse, w, head, i) ==
    IF i <= Len(w) /\ Compare(reverse, w[i], head) = "Less"
    THEN LessRun(reverse, w, head, i + 1)
    ELSE i

\* the head of w put before w[n]
MoveHead(w, n) == SubSeq(w, 2, n - 1) \o <<w[1]>> \o SubSeq(w, n, Len(w))

InsertHead(reverse, w) == MoveHead(w, LessRun(reverse, w, w[1], 2))

RECURSIVE SortBy(_, _)
SortBy(reverse, w) ==
    IF Len(w) <= 1 THEN w
    ELSE InsertHead(reverse, <<Head(w)>> \o SortBy(reverse, Tail(w)))

\* ------------------------------------------------------- the state machine
\* lhs: the Iso8601 a conversion or rendering is applied to; res: what the
\* last such operation returned.  v: a Vec<Iso8601>; out: what the last
\* comparison of its elements returned, or the vector a sort started from.

NoResult == [op |-> "none"]

Init ==
    /\ lhs = None
    /\ res = NoResult
    /\ v = <<>>
    /\ out = NoResult

\* Iso8601::from(text)
From(text) ==
    /\ lhs = None
    /\ lhs' = Some(text)
    /\ res' = NoResult
    /\ UNCHANGED <<v, out>>

\* DateTime::<FixedOffset>::try_from(&lhs)
TryFromOp ==
    /\ lhs # None
    /\ res' = [op |-> "try_from", val |-> try_from(lhs[2])]
    /\ UNCHANGED <<lhs, v, out>>

\* format!("{:?}", lhs)
FmtDebugOp ==
    /\ lhs # None
    /\ res' = [op |-> "fmt_debug", val |-> FmtDebug(lhs[2])]
    /\ UNCHANGED <<lhs, v, out>>

\* format!("{}", lhs)
FmtDisplayOp ==
    /\ lhs # None
    /\ res' = [op |-> "fmt_display", val |-> FmtDisplay(lhs[2])]
    /\ UNCHANGED <<lhs, v, out>>

Next ==
    \/ \E text \in Texts : From(text)
    \/ TryFromOp
    \/ FmtDebugOp
    \/ FmtDisplayOp

Spec == Init /\ [][Next]_vars

\* v.push(text.into())
Push(text) ==
    /\ Len(v) < MaxVec
    /\ v' = Append(v, text)
    /\ out' = NoResult
    /\ UNCHANGED <<lhs, res>>

\* a == b for every two elements of v
EqOp ==
    /\ v # <<>>
    /\ out' = [op |-> "eq", val |-> [i, j \in DOMAIN v |-> Eq(v[i], v[j])]]
    /\ UNCHANGED <<lhs, res, v>>

\* a.partial_cmp(b) for every two elements of v
PartialCmpOp ==
    /\ v # <<>>
    /\ out' = [op |-> "partial_cmp",
               val |-> [i, j \in DOMAIN v |-> PartialCmp(v[i], v[j])]]
    /\ UNCHANGED <<lhs, res, v>>

\* a.cmp(b) for every two elements of v
CmpOp ==
    /\ v # <<>>
    /\ out' = [op |-> "cmp", val |-> [i, j \in DOMAIN v |-> Cmp(v[i], v[j])]]
    /\ UNCHANGED <<lhs, res, v>>

\* v.sort_by(|a, b| a.cmp(b))
SortAscOp ==
    /\ v # <<>>
    /\ v' = SortBy(FALSE, v)
    /\ out' = [op |-> "sort_asc", val |-> v]
    /\ UNCHANGED <<lhs, res>>

\* v.sort_by(|a, b| b.cmp(a))
SortDescOp ==
    /\ v # <<>>
    /\ v' = SortBy(TRUE, v)
    /\ out' = [op |-> "sort_desc", val |-> v]
    /\ UNCHANGED <<lhs, res>>

NextCmp ==
    \/ \E text \in SortTexts : Push(text)
    \/ EqOp
    \/ PartialCmpOp
    \/ CmpOp
    \/ SortAscOp
    \/ SortDescOp

SpecCmp == Init /\ [][NextCmp]_vars

\* ------------------------------------------ claims on the three relations
\* The claims C1 to C4, C9 and C10 are about eq, partial_cmp, cmp and sort_by;
\* they are checked under SpecCmp.

\* the conversion of text succeeds
Valid(text) == Convert(text).ok

\* the instant a valid text denotes: the UTC date and time of its conversion
Instant(text) ==
    <<Convert(text).dt.date.year, Convert(text).dt.date.month,
      Convert(text).dt.date.day, Convert(text).dt.secs, Convert(text).dt.frac>>

\* the order of two instants, the earlier one being Less
RECURSIVE Order(_, _, _)
Order(x, y, i) ==
    IF i > Len(x) THEN "Equal"
    ELSE IF x[i] < y[i] THEN "Less"
    ELSE IF x[i] > y[i] THEN "Greater"
    ELSE Order(x, y, i + 1)

InstantOrder(a, b) == Order(Instant(a), Instant(b), 1)

\* Ordering::reverse
Reverse(o) ==
    CASE o = "Less" -> "Greater" [] o = "Greater" -> "Less" [] OTHER -> o

\* w holds the elements of u, each as often as u does
Permutation(u, w) ==
    /\ Len(u) = Len(w)
    /\ \A x \in SortTexts :
          Cardinality({i \in DOMAIN u : u[i] = x})
              = Cardinality({i \in DOMAIN w : w[i] = x})

\* the elements of w that fail to convert, in the order they have in w
Invalid(text) == ~Valid(text)

InvalidOf(w) == SelectSeq(w, Invalid)

\* C1: for every two values that both convert, a == b holds exactly when the
\* two denote the same instant, and partial_cmp(a, b) is Some of the order of
\* the two instants, whatever the text and the UTC offset they are written in.
C1_MeaningComparison ==
    /\ out.op = "eq" =>
          \A i, j \in DOMAIN v :
              (Valid(v[i]) /\ Valid(v[j])) =>
                  (out.val[i, j] <=> Instant(v[i]) = Instant(v[j]))
    /\ out.op = "partial_cmp" =>
          \A i, j \in DOMAIN v :
              (Valid(v[i]) /\ Valid(v[j])) =>
                  out.val[i, j] = Some(InstantOrder(v[i], v[j]))

\* "2018-10-11T03:23:38-08:00" == "2018-10-11T11:23:38Z", and neither equals
\* the text a second later
C1_Witness ==
    /\ out.op = "eq"
    /\ v = <<Pacific, Zulu, PacificLater>>
    /\ out.val[1, 2] /\ out.val[2, 1]
    /\ ~out.val[1, 3] /\ ~out.val[3, 2]

\* C2: when at least one of two values fails to convert, a == b is false and
\* partial_cmp(a, b) is None, in both argument orders; a value that fails to
\* convert is not equal to itself.
C2_NaNLike ==
    /\ out.op = "eq" =>
          \A i, j \in DOMAIN v :
              (Invalid(v[i]) \/ Invalid(v[j])) => out.val[i, j] = FALSE
    /\ out.op = "partial_cmp" =>
          \A i, j \in DOMAIN v :
              (Invalid(v[i]) \/ Invalid(v[j])) => out.val[i, j] = None

\* "boo" != "boo", and "boo" equals no valid text in either order
C2_Witness ==
    /\ out.op = "eq"
    /\ v = <<Boo, Zulu>>
    /\ ~out.val[1, 1] /\ ~out.val[1, 2] /\ ~out.val[2, 1]
    /\ out.val[2, 2]

\* C3: cmp is a total order over all values, valid and invalid alike: it
\* returns Less, Equal or Greater, cmp(a, b) is the reverse of cmp(b, a),
\* cmp(a, a) is Equal, and both "not Greater" and Equal are transitive.
C3_TotalOrder ==
    out.op = "cmp" =>
        /\ \A i, j \in DOMAIN v :
              /\ out.val[i, j] \in {"Less", "Equal", "Greater"}
              /\ out.val[i, j] = Reverse(out.val[j, i])
        /\ \A i \in DOMAIN v : out.val[i, i] = "Equal"
        /\ \A i, j, k \in DOMAIN v :
              /\ (out.val[i, j] # "Greater" /\ out.val[j, k] # "Greater")
                    => out.val[i, k] # "Greater"
              /\ (out.val[i, j] = "Equal" /\ out.val[j, k] = "Equal")
                    => out.val[i, k] = "Equal"

\* an invalid text, and two valid texts a second apart, compared
C3_Witness ==
    /\ out.op = "cmp"
    /\ v = <<Boo, Zulu, PacificLater>>
    /\ out.val[1, 2] = "Less" /\ out.val[2, 3] = "Less"
    /\ out.val[1, 3] = "Less" /\ out.val[3, 1] = "Greater"

\* C4: under cmp a value that fails to convert is Less than one that
\* converts, two that fail are Equal whatever their text, two that convert
\* are in the order of their instants.  An ascending sort puts the failing
\* entries first, in their input order, then the others in non-decreasing
\* order of instant; a descending sort puts the converting entries first, in
\* non-increasing order of instant, and the failing entries last.
C4_InvalidPlacement ==
    /\ out.op = "cmp" =>
          \A i, j \in DOMAIN v :
              out.val[i, j] =
                  IF Valid(v[i])
                  THEN (IF Valid(v[j]) THEN InstantOrder(v[i], v[j])
                        ELSE "Greater")
                  ELSE (IF Valid(v[j]) THEN "Less" ELSE "Equal")
    /\ out.op = "sort_asc" =>
          /\ Permutation(out.val, v)
          /\ InvalidOf(v) = InvalidOf(out.val)
          /\ \A i, j \in DOMAIN v :
                i < j =>
                    /\ ~(Valid(v[i]) /\ Invalid(v[j]))
                    /\ (Valid(v[i]) /\ Valid(v[j]))
                          => InstantOrder(v[i], v[j]) # "Greater"
    /\ out.op = "sort_desc" =>
          /\ Permutation(out.val, v)
          /\ \A i, j \in DOMAIN v :
                i < j =>
                    /\ ~(Invalid(v[i]) /\ Valid(v[j]))
                    /\ (Valid(v[i]) /\ Valid(v[j]))
                          => InstantOrder(v[i], v[j]) # "Less"

\* a valid text pushed before two invalid ones, sorted ascending
C4_Witness ==
    /\ out.op = "sort_asc"
    /\ out.val = <<Zulu, Boo, Bar>>
    /\ v = <<Boo, Bar, Zulu>>

\* C9, as the comment on impl Ord states it: a value that fails to convert
\* is Greater than any value that converts, which puts the failing values
\* last in an ascending sort and first in a descending sort.
C9_InvalidGreater ==
    /\ out.op = "cmp" =>
          \A i, j \in DOMAIN v :
              (Invalid(v[i]) /\ Valid(v[j])) => out.val[i, j] = "Greater"
    /\ out.op = "sort_asc" =>
          \A i, j \in DOMAIN v : i < j => ~(Invalid(v[i]) /\ Valid(v[j]))
    /\ out.op = "sort_desc" =>
          \A i, j \in DOMAIN v : i < j => ~(Valid(v[i]) /\ Invalid(v[j]))

\* C10, as the comment on impl Eq states it: == is the equality of the total
\* order; it is reflexive, symmetric and transitive, and a == b holds exactly
\* when cmp(a, b) is Equal.
C10_EqOfTotalOrder ==
    out.op = "eq" =>
        /\ \A i \in DOMAIN v : out.val[i, i]
        /\ \A i, j \in DOMAIN v :
              /\ out.val[i, j] <=> out.val[j, i]
              /\ out.val[i, j] <=> (Cmp(v[i], v[j]) = "Equal")
        /\ \A i, j, k \in DOMAIN v :
              (out.val[i, j] /\ out.val[j, k]) => out.val[i, k]

\* --------------------------------------------- claims on the conversion
\* The claims C5 to C8 are about try_from and the Debug rendering; they are
\* checked under Spec.

\* a text of the strict format: one the strict RFC 3339 parser accepts
StrictFormat(s) == ParseRfc3339(s).ok

\* a strict-format text written the way to_rfc3339 writes an instant: an
\* upper-case T, the offset as +hh:mm or -hh:mm and not as Z, z or -00:00,
\* the fraction absent or of 3, 6 or 9 digits, the fewest that hold it
CanonicalForm(s) ==
    /\ s[11] = "T"
    /\ s[Len(s) - 5] \in {"+", "-"}
    /\ Slice(s, Len(s) - 5, Len(s)) # <<"-", "0", "0", ":", "0", "0">>
    /\ \/ Len(s) = 25
       \/ /\ Len(s) - 26 \in {3, 6, 9}
          /\ Slice(s, Len(s) - 8, Len(s) - 6) # <<"0", "0", "0">>

\* the two forms of the Debug rendering of a text that converts
SingleForm(s) == <<"Iso8601 { ">> \o <<"\"">> \o s \o <<"\"">> \o <<" }">>

ArrowForm(canonical, s) ==
    <<"Iso8601 { ">> \o <<"\"">> \o canonical \o <<"\"">> \o <<" <- ">>
        \o <<"\"">> \o s \o <<"\"">> \o <<" }">>

\* C5 as the specification states it: for every valid strict RFC 3339 text
\* the conversion is the result of the direct strict parse, and the canonical
\* rendering of the instant is textually identical to the text, so that the
\* Debug rendering shows the single form.
C5_RoundTripIdentical ==
    (lhs # None /\ StrictFormat(lhs[2])) =>
        /\ res.op = "try_from" =>
              /\ res.val = ParseRfc3339(lhs[2])
              /\ ToRfc3339(res.val.dt) = lhs[2]
        /\ res.op = "fmt_debug" => res.val = SingleForm(lhs[2])

\* C5, amended: for every valid strict RFC 3339 text the conversion is the
\* result of the direct strict parse; the canonical rendering of the instant
\* is in canonical form and parses back to the same instant and offset; it
\* is textually identical to the text exactly when the text is in canonical
\* form already, and the Debug rendering then shows the single form, and the
\* "canonical <- raw" form otherwise.
C5_RoundTrip ==
    (lhs # None /\ StrictFormat(lhs[2])) =>
        /\ res.op = "try_from" =>
              /\ res.val.ok
              /\ res.val = ParseRfc3339(lhs[2])
              /\ CanonicalForm(ToRfc3339(res.val.dt))
              /\ ParseRfc3339(ToRfc3339(res.val.dt)) = res.val
              /\ (ToRfc3339(res.val.dt) = lhs[2]) <=> CanonicalForm(lhs[2])
        /\ res.op = "fmt_debug" =>
              res.val = IF CanonicalForm(lhs[2]) THEN SingleForm(lhs[2])
                        ELSE ArrowForm(ToRfc3339(ParseRfc3339(lhs[2]).dt),
                                       lhs[2])

\* a canonical text with a fraction of six digits, rendered in the single
\* form
C5_Witness ==
    /\ lhs = Some(LeapSecond)
    /\ res.op = "fmt_debug"
    /\ res.val = SingleForm(LeapSecond)

\* a text that is not of the strict format and that the pattern matches
Permissive(s) == ~ParseRfc3339(s).ok /\ Captures(s).matched

\* the month, the day, the hour, the minute or the second is left out
Omits(cap) ==
    cap.M = <<>> \/ cap.D = <<>> \/ cap.h = <<>> \/ cap.m = <<>> \/ cap.s = <<>>

\* the text a field gives to the candidate: its own, or the default
FieldText(g, default) == IF g = <<>> THEN default ELSE g

\* the date and time of candidate c are the fields of cap, a field left out
\* being 01 in the date and 00 in the time
FieldsCarried(cap, c) ==
    /\ Slice(c, 1, 4) = cap.Y
    /\ c[5] = "-" /\ Slice(c, 6, 7) = FieldText(cap.M, <<"0", "1">>)
    /\ c[8] = "-" /\ Slice(c, 9, 10) = FieldText(cap.D, <<"0", "1">>)
    /\ c[11] = "T" /\ Slice(c, 12, 13) = FieldText(cap.h, <<"0", "0">>)
    /\ c[14] = ":" /\ Slice(c, 15, 16) = FieldText(cap.m, <<"0", "0">>)
    /\ c[17] = ":" /\ Slice(c, 18, 19) = FieldText(cap.s, <<"0", "0">>)

\* what follows the seconds in the candidate: the fraction as captured, and
\* the zone: Z when it is left out or given as Z or z, else a sign ("+", or
\* "-" for any other sign character), the hours, ":" and the minutes or 00
ZoneCarried(cap, c) ==
    Slice(c, 20, Len(c)) =
        (IF cap.ss = <<>> THEN <<>> ELSE <<".">> \o cap.ss)
            \o (IF cap.Z = <<>> \/ cap.Z = <<"Z">> \/ cap.Z = <<"z">>
                THEN <<"Z">>
                ELSE (IF cap.Zsgn = <<"+">> THEN <<"+">> ELSE <<"-">>)
                        \o cap.Zhrs \o <<":">> \o FieldText(cap.Zmin, <<"0", "0">>))

AsciiOnly(g) == \A i \in DOMAIN g : g[i] \in AsciiDigit

FieldNum(g, default) == IF g = <<>> THEN default ELSE Num(g, 1, Len(g))

\* the fields of cap are written in ASCII digits, the day is one of the month
\* and the offset is less than a day, with minutes up to 59
FieldsValid(cap) ==
    /\ \A g \in {cap.Y, cap.M, cap.D, cap.h, cap.m, cap.s, cap.ss,
                 cap.Zhrs, cap.Zmin} : AsciiOnly(g)
    /\ FieldNum(cap.D, 1)
          <= DaysInMonth(FieldNum(cap.Y, 0), FieldNum(cap.M, 1))
    /\ FieldNum(cap.Zhrs, 0) <= 23
    /\ FieldNum(cap.Zmin, 0) <= 59

\* C6 as the specification states it: for a text that is not of the strict
\* format, that the pattern matches and that leaves out the month, the day
\* or a field of the time, the candidate has 01, 01 and 00 for the fields
\* left out and Z for a zone left out, the fields present are carried over,
\* and the candidate validates, so that the conversion returns an instant.
C6_DefaultsAlwaysValid ==
    (/\ res.op = "try_from"
     /\ Permissive(lhs[2])
     /\ Omits(Captures(lhs[2]))) =>
        /\ FieldsCarried(Captures(lhs[2]), Timestamp(Captures(lhs[2])))
        /\ Captures(lhs[2]).Z = <<>> =>
              Timestamp(Captures(lhs[2]))[Len(Timestamp(Captures(lhs[2])))]
                  = "Z"
        /\ res.val.ok

\* C6, amended: for such a text the candidate has 01, 01 and 00 for the
\* fields left out and carries the fields present; its zone is Z when the
\* zone is left out, and is the zone given, normalized, otherwise.  The
\* conversion returns an instant exactly when the candidate is valid strict
\* RFC 3339 (ASCII digits, a day of the month, an offset below 24:00 with
\* minutes up to 59), and that instant has the date and time of the
\* candidate; otherwise the conversion fails.
C6_DefaultFillIn ==
    (/\ res.op = "try_from"
     /\ Permissive(lhs[2])
     /\ Omits(Captures(lhs[2]))) =>
        /\ FieldsCarried(Captures(lhs[2]), Timestamp(Captures(lhs[2])))
        /\ ZoneCarried(Captures(lhs[2]), Timestamp(Captures(lhs[2])))
        /\ res.val.ok <=> FieldsValid(Captures(lhs[2]))
        /\ res.val.ok =>
              Slice(ToRfc3339(res.val.dt), 1, 19)
                  = Slice(Timestamp(Captures(lhs[2])), 1, 19)

\* "2018" converts to 2018-01-01T00:00:00+00:00
C6_Witness ==
    /\ lhs = Some(<<"2", "0", "1", "8">>)
    /\ res.op = "try_from"
    /\ res.val.ok
    /\ ToRfc3339(res.val.dt) = <<"2", "0", "1", "8", "-", "0", "1", "-", "0", "1", "T", "0", "0", ":", "0", "0", ":", "0", "0", "+", "0", "0", ":", "0", "0">>

\* the text has 24 where the hour of the time of day is: after a date (digits
\* and "-", four digits at least) and "T", "t" or whitespace
HourIs24(s, a, b) ==
    /\ b >= a + 4
    /\ \/ /\ At(s, b) \in {"T", "t"}
          /\ At(s, b + 1) = "2" /\ At(s, b + 2) = "4"
       \/ /\ At(s, b) \in WhiteSpace
          /\ At(s, RunEnd(s, b, WhiteSpace)) = "2"
          /\ At(s, RunEnd(s, b, WhiteSpace) + 1) = "4"

Hour24(s) ==
    HourIs24(s, RunEnd(s, 1, WhiteSpace),
             RunEnd(s, RunEnd(s, 1, WhiteSpace), AsciiDigit \cup {"-"}))

\* C7: a text whose hour of the time of day is 24, with T, t or whitespace
\* before it, with or without ":", minutes, seconds, fraction or zone, never
\* converts to an instant: the conversion returns an error.
C7_Hour24Rejected ==
    (lhs # None /\ Hour24(lhs[2])) =>
        /\ res.op = "try_from" => ~res.val.ok
        /\ res.op = "fmt_debug" =>
              \E n \in 1..Len(res.val) : res.val[n] = " -> "

\* "2018-01-01T24", which the pattern matches (T24 as a zone), is rejected by
\* the second strict parse
C7_Witness ==
    /\ lhs = Some(<<"2", "0", "1", "8", "-", "0", "1", "-", "0", "1", "T", "2", "4">>)
    /\ res.op = "try_from"
    /\ Captures(lhs[2]).matched
    /\ ~res.val.ok

\* the two diagnostics
NotFoundText(text) ==
    <<"Failed to find ISO 3339 or RFC 8601 timestamp in ">>
        \o <<"\"">> \o text \o <<"\"">>

ConvertText(candidate, text) ==
    <<"Attempting to convert RFC 3339 timestamp ">>
        \o <<"\"">> \o candidate \o <<"\"">> \o <<" from ISO 8601 ">>
        \o <<"\"">> \o text \o <<"\"">> \o <<" to a DateTime">>

SignGlyphs == {<<"+">>, <<"-">>, <<"U+2212">>}

\* the sign the candidate has, after the seconds and the fraction
CandidateSign(c) == c[Len(c) - 5]

\* C11: on the permissive path a numeric zone is recognized only when its
\* sign character is "+", "-" or U+2212; "+" is carried as "+" and both
\* minus signs as "-".  A text whose zone would start with any other
\* character (a letter, a digit, ":", ".") followed by 2 or 4 digits has no
\* offset extracted from it, and does not convert to an instant with an
\* offset derived from that character.
C11_SignGlyphs ==
    (/\ res.op = "try_from"
     /\ Permissive(lhs[2])
     /\ Captures(lhs[2]).Zsgn # <<>>) =>
        /\ Captures(lhs[2]).Zsgn \in SignGlyphs
        /\ CandidateSign(Timestamp(Captures(lhs[2])))
              = (IF Captures(lhs[2]).Zsgn = <<"+">> THEN "+" ELSE "-")
        /\ Captures(lhs[2]).Zsgn \notin SignGlyphs => ~res.val.ok

\* C12: the date follows YYYY[[-]MM[[-]DD]]: the day group is non-empty only
\* if the month group is non-empty, and a two-digit group of 13 to 31 right
\* after the year ("2018-13", "201831") is never taken as a day of the
\* defaulted month 01.
C12_DayNeedsMonth ==
    (/\ res.op = "try_from"
     /\ Permissive(lhs[2])) =>
        /\ Captures(lhs[2]).D # <<>> => Captures(lhs[2]).M # <<>>
        /\ lhs[2] \in {<<"2", "0", "1", "8", "-", "1", "3">>, <<"2", "0", "1", "8", "3", "1">>} => ~res.val.ok

====
